---- MODULE Spec2Model ----
(***************************************************************************)
(* svelte-docs-server (src/svelte-docs-server/src/index.ts).               *)
(*                                                                         *)
(* The process fetches one text document (up to three attempts), segments  *)
(* it into documentationSections, connects the stdio transport and then    *)
(* answers list-resources, read-resource, list-tools and call-tool         *)
(* (search_docs) requests.                                                 *)
(*                                                                         *)
(* A JavaScript string is modelled as a sequence of one-character strings, *)
(* so that split, trim, toLowerCase, includes, replace and the regular     *)
(* expressions are computed character by character as the code does.       *)
(***************************************************************************)
EXTENDS Integers, Sequences, FiniteSets

VARIABLES pc, retries, error, content, documentationSections, request, response

vars == <<pc, retries, error, content, documentationSections, request, response>>

(***************************************************************************)
(* Bounds of the model.                                                    *)
(***************************************************************************)
\* longest fetched body, in raw lines, of the specification Spec
MaxLines == 3
\* longest fetched body, in raw lines, of the specification SpecSearch
MaxSearchLines == 4

(***************************************************************************)
(* Program constants.                                                      *)
(***************************************************************************)
MaxRetries == 3
ResultLimit == 3
WordLimit == 3
HeaderExactScore == 10000
LineExactScore == 1000
HeaderWordScore == 800
LineWordScore == 400
RelevantSectionWeight == 100

(***************************************************************************)
(* Characters and the string primitives of JavaScript the code uses.       *)
(***************************************************************************)
UpperCaseLetters ==
  <<"A", "B", "C", "D", "E", "F", "G", "H", "I", "J", "K", "L", "M",
    "N", "O", "P", "Q", "R", "S", "T", "U", "V", "W", "X", "Y", "Z">>
LowerCaseLetters ==
  <<"a", "b", "c", "d", "e", "f", "g", "h", "i", "j", "k", "l", "m",
    "n", "o", "p", "q", "r", "s", "t", "u", "v", "w", "x", "y", "z">>
Digits == {"0", "1", "2", "3", "4", "5", "6", "7", "8", "9"}

\* the characters \s and String.prototype.trim treat as white space
WhiteSpace == {" ", "\t", "\n", "\r", "\f"}
\* the characters the regular expression "." does not match
LineTerminators == {"\n", "\r"}

Range(s) == {s[i] : i \in 1..Len(s)}

\* the sequence f itself, its elements computed once
AsSeq(f) == SubSeq(f, 1, Len(f))

toLowerCaseChar(c) ==
  IF \E i \in 1..26 : UpperCaseLetters[i] = c
    THEN LowerCaseLetters[CHOOSE i \in 1..26 : UpperCaseLetters[i] = c]
    ELSE c

toLowerCase(s) == AsSeq([i \in 1..Len(s) |-> toLowerCaseChar(s[i])])

startsWith(s, p) == Len(s) >= Len(p) /\ SubSeq(s, 1, Len(p)) = p

\* String.prototype.includes: q occurs in t as a substring
includes(t, q) ==
  \E i \in 0..(Len(t) - Len(q)) : SubSeq(t, i + 1, i + Len(q)) = q

RECURSIVE DropLeading(_, _)
DropLeading(s, chars) ==
  IF s # <<>> /\ Head(s) \in chars THEN DropLeading(Tail(s), chars) ELSE s

RECURSIVE DropTrailing(_, _)
DropTrailing(s, chars) ==
  IF s # <<>> /\ s[Len(s)] \in chars
    THEN DropTrailing(SubSeq(s, 1, Len(s) - 1), chars)
    ELSE s

trim(s) == DropTrailing(DropLeading(s, WhiteSpace), WhiteSpace)

\* the first position of s that holds a character of chars, 0 if none
FirstIn(s, chars) ==
  IF \E i \in 1..Len(s) : s[i] \in chars
    THEN CHOOSE i \in 1..Len(s) :
           s[i] \in chars /\ \A j \in 1..(i - 1) : s[j] \notin chars
    ELSE 0

\* String.prototype.split(sep) for a one-character separator: the piece
\* before the first separator, then the pieces of the rest
RECURSIVE split(_, _)
split(s, sep) ==
  LET at == FirstIn(s, {sep})
  IN  IF at = 0 THEN <<s>>
      ELSE <<SubSeq(s, 1, at - 1)>> \o split(SubSeq(s, at + 1, Len(s)), sep)

\* String.prototype.split(/\s+/): the pieces between the maximal runs of
\* white space, the empty pieces before a leading and after a trailing run
\* included
RECURSIVE splitWhiteSpace(_)
splitWhiteSpace(s) ==
  LET at == FirstIn(s, WhiteSpace)
  IN  IF at = 0 THEN <<s>>
      ELSE <<SubSeq(s, 1, at - 1)>>
           \o splitWhiteSpace(DropLeading(SubSeq(s, at, Len(s)), WhiteSpace))

\* Array.prototype.join
RECURSIVE join(_, _)
join(parts, sep) ==
  IF parts = <<>> THEN <<>>
  ELSE IF Len(parts) = 1 THEN parts[1]
  ELSE parts[1] \o sep \o join(Tail(parts), sep)

\* Array.prototype.filter on a sequence of strings: the non-empty ones
RECURSIVE NonEmpty(_)
NonEmpty(parts) ==
  IF parts = <<>> THEN <<>>
  ELSE IF Len(Head(parts)) > 0 THEN <<Head(parts)>> \o NonEmpty(Tail(parts))
  ELSE NonEmpty(Tail(parts))

\* Array.prototype.slice(0, n)
Take(s, n) == SubSeq(s, 1, IF Len(s) < n THEN Len(s) ELSE n)

RECURSIVE Flatten(_)
Flatten(ss) == IF ss = <<>> THEN <<>> ELSE Head(ss) \o Flatten(Tail(ss))

Max(a, b) == IF a >= b THEN a ELSE b

(***************************************************************************)
(* Segmentation: the body of the try block of fetchDocumentation.          *)
(***************************************************************************)
SyntheticHeader ==
  <<"#", " ", "S", "t", "a", "r", "t", " ", "o", "f", " ", "S", "v", "e",
    "l", "t", "e", " ", "d", "o", "c", "u", "m", "e", "n", "t", "a", "t",
    "i", "o", "n">>
SyntheticId ==
  <<"s", "t", "a", "r", "t", "-", "o", "f", "-", "s", "v", "e", "l", "t",
    "e", "-", "d", "o", "c", "u", "m", "e", "n", "t", "a", "t", "i", "o",
    "n">>
HeaderMarker == <<"#", " ">>

\* content.split('\n').filter(line => line.trim().length > 0).map(...)
RECURSIVE MapLines(_)
MapLines(raw) ==
  IF raw = <<>> THEN <<>>
  ELSE IF Len(trim(Head(raw))) > 0
    THEN <<[text |-> trim(Head(raw)),
            isHeader |-> startsWith(trim(Head(raw)), HeaderMarker)]>>
         \o MapLines(Tail(raw))
  ELSE MapLines(Tail(raw))

lines(body) == MapLines(split(body, "\n"))

IsAlnum(c) == c \in Range(LowerCaseLetters) \/ c \in Digits

\* .replace(/[^a-z0-9]+/g, '-'): every character of [a-z0-9] is kept, the
\* first character of every run of others becomes "-" and the rest of the
\* run is dropped
ReplaceNonAlnumRuns(s) ==
  LET kept == SelectSeq(AsSeq([i \in 1..Len(s) |-> i]),
                        LAMBDA i : IsAlnum(s[i]) \/ i = 1 \/ IsAlnum(s[i - 1]))
  IN  AsSeq([k \in 1..Len(kept) |->
               IF IsAlnum(s[kept[k]]) THEN s[kept[k]] ELSE "-"])

\* .replace(/^#+\s*/, '')
StripLeadingMarker(s) ==
  IF s # <<>> /\ Head(s) = "#"
    THEN DropLeading(DropLeading(s, {"#"}), WhiteSpace)
    ELSE s

\* the id of the section a header line opens
sectionId(text) == StripLeadingMarker(ReplaceNonAlnumRuns(toLowerCase(text)))

InitialSection == [id |-> SyntheticId, header |-> SyntheticHeader, content |-> <<>>]

\* forEachLine with a slip: a section left without content is not pushed
forEachLineSkipEmpty(st, line) ==
  IF line.isHeader /\ trim(line.text) # SyntheticHeader
    THEN [currentSection |-> [id |-> sectionId(line.text),
                              header |-> line.text,
                              content |-> <<>>],
          sections |-> IF st.currentSection.content = <<>>
                         THEN st.sections
                         ELSE Append(st.sections, st.currentSection)]
    ELSE [currentSection |->
            [st.currentSection EXCEPT !.content = Append(@, trim(line.text))],
          sections |-> st.sections]

\* one call of the lines.forEach callback; st holds currentSection and the
\* documentationSections built so far
forEachLine(st, line) ==
  IF line.isHeader /\ trim(line.text) # SyntheticHeader
    THEN [currentSection |-> [id |-> sectionId(line.text),
                              header |-> line.text,
                              content |-> <<>>],
          sections |-> Append(st.sections, st.currentSection)]
    ELSE [currentSection |->
            [st.currentSection EXCEPT !.content = Append(@, trim(line.text))],
          sections |-> st.sections]

RECURSIVE ForEach(_, _)
ForEach(st, ls) ==
  IF ls = <<>> THEN st ELSE ForEach(forEachLine(st, Head(ls)), Tail(ls))

\* the reset, the walk and the push of the last section
buildSections(ls) ==
  LET st == ForEach([currentSection |-> InitialSection, sections |-> <<>>], ls)
  IN  Append(st.sections, st.currentSection)

(***************************************************************************)
(* Relevance scoring.                                                      *)
(***************************************************************************)
\* new RegExp(word) throws a SyntaxError on an unterminated group.  The
\* patterns of this model are made of letters, digits, "." and "(": a "("
\* is never closed, "." matches any character but a line terminator, and
\* every other character matches itself.
RegExpThrows(pattern) == "(" \in Range(pattern)

RegExpMatchesAt(t, pattern, i) ==
  /\ i + Len(pattern) - 1 <= Len(t)
  /\ \A k \in 1..Len(pattern) :
       IF pattern[k] = "." THEN t[i + k - 1] \notin LineTerminators
                           ELSE t[i + k - 1] = pattern[k]

\* text.match(regex) with the g flag: the matches, leftmost first, none
\* overlapping (the next one is looked for after the end of the last); the
\* empty pattern matches once at every position and matches of one
\* character never overlap
RECURSIVE CountMatchesFrom(_, _, _)
CountMatchesFrom(t, pattern, i) ==
  LET starts == {j \in i..Len(t) : RegExpMatchesAt(t, pattern, j)}
      first == CHOOSE j \in starts : \A k \in starts : j <= k
  IN  IF pattern = <<>> THEN Len(t) + 1
      ELSE IF Len(pattern) = 1 THEN Cardinality(starts)
      ELSE IF starts = {} THEN 0
      ELSE 1 + CountMatchesFrom(t, pattern, first + Len(pattern))

\* defined when RegExpThrows(toLowerCase(word)) is false
countOccurrences(text, word) ==
  CountMatchesFrom(toLowerCase(text), toLowerCase(word), 1)

getRelevanceScore(text, query, isHeader) ==
  LET lowerText == toLowerCase(text)
      lowerQuery == toLowerCase(query)
      words == splitWhiteSpace(query)
      matchingWords ==
        SelectSeq(words, LAMBDA word : includes(lowerText, toLowerCase(word)))
  IN  IF Len(words) = 1
        THEN IF isHeader /\ includes(lowerText, lowerQuery) THEN HeaderExactScore
             ELSE IF includes(lowerText, lowerQuery) THEN LineExactScore
             ELSE 0
      ELSE IF includes(lowerText, lowerQuery)
        THEN (IF isHeader THEN HeaderExactScore ELSE LineExactScore)
      ELSE IF Len(matchingWords) > 1
        THEN Len(matchingWords) * (IF isHeader THEN HeaderWordScore ELSE LineWordScore)
      ELSE 0

(***************************************************************************)
(* Array.prototype.sort with the comparator (a, b) => key(b) - key(a):     *)
(* descending by key, equal keys in their original order (the sort is      *)
(* stable).  keys[i] is the key of items[i].                               *)
(***************************************************************************)
RECURSIVE InsertByKey(_, _, _)
InsertByKey(sorted, i, keys) ==
  IF sorted = <<>> THEN <<i>>
  ELSE IF keys[Head(sorted)] >= keys[i]
    THEN <<Head(sorted)>> \o InsertByKey(Tail(sorted), i, keys)
  ELSE <<i>> \o sorted

RECURSIVE SortedIndices(_, _)
SortedIndices(n, keys) ==
  IF n = 0 THEN <<>> ELSE InsertByKey(SortedIndices(n - 1, keys), n, keys)

sortDescending(items, keys) ==
  LET idx == SortedIndices(Len(items), keys)
  IN  AsSeq([p \in 1..Len(items) |-> items[idx[p]]])

(***************************************************************************)
(* The search_docs tool: the CallToolRequestSchema handler.                *)
(***************************************************************************)
InvalidQueryText ==
  <<"P", "l", "e", "a", "s", "e", " ", "p", "r", "o", "v", "i", "d", "e",
    " ", "a", " ", "v", "a", "l", "i", "d", " ", "s", "e", "a", "r", "c",
    "h", " ", "q", "u", "e", "r", "y">>
NoMatchesText ==
  <<"N", "o", " ", "m", "a", "t", "c", "h", "e", "s", " ", "f", "o", "u",
    "n", "d">>
UndefinedText == <<"u", "n", "d", "e", "f", "i", "n", "e", "d">>

\* String(request.params.arguments?.query)
String(arg) == IF arg.given THEN arg.value ELSE UndefinedText

\* queryWords with a slip: the empty pieces are kept
queryWordsUnfiltered(query) == splitWhiteSpace(query)

\* query.split(/\s+/).filter(word => word.length > 0)
queryWords(query) == NonEmpty(splitWhiteSpace(query))

\* the items one section contributes to allContent
sectionContent(section, query, words) ==
  LET headerScore == getRelevanceScore(section.header, query, TRUE)
  IN  AsSeq([i \in 1..Len(section.content) |->
         [header |-> section.header,
          text |-> section.content[i],
          exactScore |-> Max(headerScore,
                             getRelevanceScore(section.content[i], query, FALSE)),
          wordScores |-> AsSeq([k \in 1..Len(words) |->
                            [word |-> words[k],
                             frequency |-> countOccurrences(section.content[i],
                                                            words[k])]])]])

allContent(sections, query, words) ==
  Flatten([s \in 1..Len(sections) |-> sectionContent(sections[s], query, words)])

exactMatches(all) ==
  LET found == SelectSeq(all, LAMBDA item : item.exactScore > 0)
  IN  sortDescending(found, AsSeq([i \in 1..Len(found) |-> found[i].exactScore]))

\* item.wordScores.find(s => s.word === word)?.frequency || 0
wordFrequency(item, word) ==
  IF \E k \in 1..Len(item.wordScores) : item.wordScores[k].word = word
    THEN item.wordScores[CHOOSE k \in 1..Len(item.wordScores) :
                           /\ item.wordScores[k].word = word
                           /\ \A j \in 1..(k - 1) : item.wordScores[j].word # word
                        ].frequency
    ELSE 0

relevanceScore(item, word) ==
  IF includes(toLowerCase(item.header), toLowerCase(word))
    THEN RelevantSectionWeight ELSE 1

\* the results of one word of the query
wordResult(all, word) ==
  LET found == SelectSeq(all, LAMBDA item :
                 \E k \in 1..Len(item.wordScores) :
                    /\ item.wordScores[k].word = word
                    /\ item.wordScores[k].frequency > 0)
      keys == AsSeq([i \in 1..Len(found) |->
                 relevanceScore(found[i], word) * wordFrequency(found[i], word)])
  IN  Take(sortDescending(found, keys), WordLimit)

wordResults(all, words) ==
  Flatten([k \in 1..Len(words) |-> wordResult(all, words[k])])

\* Array.from(new Set(texts)): each text once, at its first position
RECURSIVE Distinct(_, _)
Distinct(texts, seen) ==
  IF texts = <<>> THEN <<>>
  ELSE IF Head(texts) \in seen THEN Distinct(Tail(texts), seen)
  ELSE <<Head(texts)>> \o Distinct(Tail(texts), seen \cup {Head(texts)})

\* combinedResults.find(r => r.text === text)
FirstWithText(results, text) ==
  results[CHOOSE i \in 1..Len(results) :
            /\ results[i].text = text
            /\ \A j \in 1..(i - 1) : results[j].text # text]

\* uniqueResults with a slip: no deduplication
uniqueResultsNoDedupe(combinedResults) == Take(combinedResults, ResultLimit)

\* uniqueResults with a slip: no final slice
uniqueResultsNoLimit(combinedResults) ==
  LET texts == Distinct([i \in 1..Len(combinedResults) |-> combinedResults[i].text], {})
  IN  [i \in 1..Len(texts) |-> FirstWithText(combinedResults, texts[i])]

uniqueResults(combinedResults) ==
  LET combined == AsSeq(combinedResults)
      texts == Distinct(AsSeq([i \in 1..Len(combined) |-> combined[i].text]), {})
  IN  Take([i \in 1..Len(texts) |-> FirstWithText(combined, texts[i])],
           ResultLimit)

\* `[${result.header}] ${result.text}`
render(result) == <<"[">> \o result.header \o <<"]", " ">> \o result.text

TextContent(texts) == [kind |-> "content", content |-> texts]
Thrown(code) == [kind |-> "error", code |-> code]

searchDocs(sections, query) ==
  LET words == queryWords(query)
      scored == \E s \in 1..Len(sections) : Len(sections[s].content) > 0
      all == AsSeq(allContent(sections, query, words))
      unique == uniqueResults(exactMatches(all) \o wordResults(all, words))
  IN  IF Len(words) = 0 THEN TextContent(<<InvalidQueryText>>)
      ELSE IF scored /\ \E k \in 1..Len(words) : RegExpThrows(toLowerCase(words[k]))
        THEN Thrown("SyntaxError")
      ELSE IF Len(unique) > 0
        THEN TextContent([i \in 1..Len(unique) |-> render(unique[i])])
      ELSE TextContent(<<NoMatchesText>>)

callTool(sections, name, arg) ==
  IF name = "search_docs" THEN searchDocs(sections, String(arg))
  ELSE Thrown("MethodNotFound")

(***************************************************************************)
(* The resource handlers.                                                  *)
(***************************************************************************)
UriPrefix ==
  <<"s", "v", "e", "l", "t", "e", ":", "/", "/", "/", "s", "e", "c", "t",
    "i", "o", "n", "/">>
ContentSuffix == <<"/", "c", "o", "n", "t", "e", "n", "t">>
ContentNameSuffix == <<" ", "C", "o", "n", "t", "e", "n", "t">>

endsWith(s, p) ==
  Len(s) >= Len(p) /\ SubSeq(s, Len(s) - Len(p) + 1, Len(s)) = p

\* the ListResourcesRequestSchema handler
listResources(sections) ==
  [kind |-> "resources",
   resources |->
     Flatten([s \in 1..Len(sections) |->
       << [uri |-> UriPrefix \o sections[s].id,
           name |-> sections[s].header],
          [uri |-> UriPrefix \o sections[s].id \o ContentSuffix,
           name |-> sections[s].header \o ContentNameSuffix] >>])]

\* uri.match(/^svelte:\/\/\/section\/([^/]+)(\/content)?$/): the groups, or
\* matched = FALSE.  [^/]+ holds no "/", so the groups are determined by
\* the text after the prefix.
matchUri(uri) ==
  LET rest == SubSeq(uri, Len(UriPrefix) + 1, Len(uri))
      stem == SubSeq(rest, 1, Len(rest) - Len(ContentSuffix))
  IN  IF ~startsWith(uri, UriPrefix)
        THEN [matched |-> FALSE, sectionId |-> <<>>, isContent |-> FALSE]
      ELSE IF rest # <<>> /\ "/" \notin Range(rest)
        THEN [matched |-> TRUE, sectionId |-> rest, isContent |-> FALSE]
      ELSE IF endsWith(rest, ContentSuffix) /\ stem # <<>> /\ "/" \notin Range(stem)
        THEN [matched |-> TRUE, sectionId |-> stem, isContent |-> TRUE]
      ELSE [matched |-> FALSE, sectionId |-> <<>>, isContent |-> FALSE]

\* documentationSections.find(s => s.id === sectionId): its index, 0 if none
findSection(sections, id) ==
  IF \E i \in 1..Len(sections) : sections[i].id = id
    THEN CHOOSE i \in 1..Len(sections) :
           /\ sections[i].id = id
           /\ \A j \in 1..(i - 1) : sections[j].id # id
    ELSE 0

\* readResource with a slip: no check of empty content
readResourceNoEmptyCheck(sections, uri) ==
  LET m == matchUri(uri)
      i == findSection(sections, m.sectionId)
      section == sections[i]
      text == IF m.isContent THEN join(section.content, <<"\n">>)
                             ELSE section.header
  IN  IF ~m.matched THEN Thrown("InvalidRequest")
      ELSE IF i = 0 THEN Thrown("InvalidRequest")
      ELSE [kind |-> "contents", uri |-> uri, text |-> text]

\* the ReadResourceRequestSchema handler
readResource(sections, uri) ==
  LET m == matchUri(uri)
      i == findSection(sections, m.sectionId)
      section == sections[i]
      text == IF m.isContent THEN join(section.content, <<"\n">>)
                             ELSE section.header
  IN  IF ~m.matched THEN Thrown("InvalidRequest")
      ELSE IF i = 0 THEN Thrown("InvalidRequest")
      ELSE IF m.isContent /\ Len(section.content) = 0 THEN Thrown("InternalError")
      ELSE [kind |-> "contents", uri |-> uri, text |-> text]

\* the ListToolsRequestSchema handler
listTools == [kind |-> "tools", tools |-> <<"search_docs">>]

(***************************************************************************)
(* The inputs of the model.                                                *)
(***************************************************************************)
\* raw lines of the bodies of Spec: a blank line, headers (one padded, one
\* equal to the synthetic header, two with the same id) and content lines
LinePool ==
  { <<" ">>,
    <<"#", " ", "A", "b">>,
    <<" ", "#", " ", "a", "b", " ">>,
    <<"#", " ", "A", ".", " ", "b">>,
    SyntheticHeader,
    <<"a", " ", "b">>,
    <<"#", "#", " ", "B", ".">> }

\* raw lines of the bodies of SpecSearch: one header and four content lines
SearchLinePool ==
  { <<"#", " ", "A", "b">>,
    <<"a", "b">>,
    <<"a", " ", "b">>,
    <<"b", " ", "a">>,
    <<"a", "a">> }

\* scenario 1 of the specification's examples
ScenarioBody ==
  join(<< SyntheticHeader,
          <<"H", "e", "l", "l", "o", " ", "w", "o", "r", "l", "d">>,
          <<"#", " ", "R", "o", "u", "t", "i", "n", "g">>,
          <<"U", "s", "e", " ", "a", " ", "r", "o", "u", "t", "e", "r", ".">> >>,
       <<"\n">>)

SeqsUpTo(S, n) == UNION {[1..k -> S] : k \in 0..n}

\* the bodies a fetch can return: up to n lines of pool joined by "\n"
Bodies(pool, n) == {join(ls, <<"\n">>) : ls \in SeqsUpTo(pool, n)}

Docs == Bodies(LinePool, MaxLines) \cup {ScenarioBody}
SearchDocs == Bodies(SearchLinePool, MaxSearchLines)

\* the query argument of a search_docs call; the last one is a call without it
Queries ==
  { [given |-> TRUE, value |-> q] :
      q \in { <<>>,
              <<" ", "\t">>,
              <<"a">>,
              <<"A", "b">>,
              <<"a", " ", "b">>,
              <<"a", " ", "a">>,
              <<"z">>,
              <<" ", "z", " ">>,
              <<"z", " ", "b">>,
              <<".">>,
              <<"(">> } }
  \cup { [given |-> FALSE, value |-> <<>>] }

\* scenario 2 of the specification's examples
ScenarioQueries ==
  { [given |-> TRUE, value |-> <<"r", "o", "u", "t", "e", "r">>] }

ToolNames == {"search_docs", "other_tool"}

\* the URIs of read requests: those the server lists, and malformed or
\* unknown ones
BadUris ==
  { UriPrefix,
    UriPrefix \o <<"z", "z">>,
    UriPrefix \o <<"-", "a", "b", "/", "x">>,
    UriPrefix \o <<"-", "a", "b">> \o ContentSuffix \o <<"s">>,
    <<"s", "v", "e", "l", "t", "e", ":", "/", "/">> \o <<"-", "a", "b">> }

Uris(sections) ==
  {r.uri : r \in Range(listResources(sections).resources)} \cup BadUris

(***************************************************************************)
(* The process.                                                            *)
(***************************************************************************)
NoMessage == [kind |-> "none"]

Init ==
  /\ pc = "fetching"
  /\ retries = MaxRetries
  /\ error = "null"
  /\ content = <<>>
  /\ documentationSections = <<>>
  /\ request = NoMessage
  /\ response = NoMessage

\* the catch block of the retry loop: the error is kept (its message is not
\* modelled), one retry is used, and the loop ends when none is left
Catch ==
  /\ error' = "Error"
  /\ retries' = retries - 1
  /\ pc' = IF retries - 1 > 0 THEN "fetching" ELSE "afterLoop"

\* an attempt whose fetch is rejected: the 10 s timeout aborts it, or the
\* network fails
AttemptAborted ==
  /\ pc = "fetching" /\ retries > 0
  /\ Catch
  /\ UNCHANGED <<content, documentationSections, request, response>>

\* an attempt answered with a status that is not ok
AttemptHttpError ==
  /\ pc = "fetching" /\ retries > 0
  /\ Catch
  /\ UNCHANGED <<content, documentationSections, request, response>>

\* AttemptBody with a slip: the list is reset and rebuilt before the check
\* that the body has a non-blank line, so an attempt that fails on that check
\* has already replaced the list
AttemptBodyBuildFirst(bodies) ==
  /\ pc = "fetching" /\ retries > 0
  /\ \E body \in bodies :
       /\ content' = body
       /\ IF body = <<>>
            THEN Catch /\ UNCHANGED documentationSections
          ELSE IF Len(lines(body)) = 0
            THEN Catch /\ documentationSections' = buildSections(lines(body))
          ELSE /\ documentationSections' = buildSections(lines(body))
               /\ pc' = "afterLoop"
               /\ UNCHANGED <<error, retries>>
  /\ UNCHANGED <<request, response>>

\* an attempt answered with a body: the rest of the try block
AttemptBody(bodies) ==
  /\ pc = "fetching" /\ retries > 0
  /\ \E body \in bodies :
       /\ content' = body
       /\ IF body = <<>>
            THEN Catch /\ UNCHANGED documentationSections
          ELSE IF Len(lines(body)) = 0
            THEN Catch /\ UNCHANGED documentationSections
          ELSE /\ documentationSections' = buildSections(lines(body))
               /\ pc' = "afterLoop"
               /\ UNCHANGED <<error, retries>>
  /\ UNCHANGED <<request, response>>

\* how fetchDocumentation ends after its loop
fetchOutcome(err, sections) ==
  IF err # "null" THEN "throws"
  ELSE IF Len(sections) = 0 THEN "throws"
  ELSE "returns"

\* mainAfterFetch with a slip: the error is swallowed and the server connects
mainAfterFetchSwallow(outcome) == "connecting"

\* main after fetchDocumentation: connect the transport, or rethrow to the
\* handler that exits the process
mainAfterFetch(outcome) == IF outcome = "throws" THEN "exited" ELSE "connecting"

FetchEnds ==
  /\ pc = "afterLoop"
  /\ pc' = mainAfterFetch(fetchOutcome(error, documentationSections))
  /\ UNCHANGED <<retries, error, content, documentationSections, request, response>>

\* server.connect(transport): requests are read from now on
Connect ==
  /\ pc = "connecting"
  /\ pc' = "serving"
  /\ UNCHANGED <<retries, error, content, documentationSections, request, response>>

Idle == pc = "serving" /\ response = NoMessage

ListResources ==
  /\ Idle
  /\ request' = [kind |-> "listResources"]
  /\ response' = listResources(documentationSections)
  /\ UNCHANGED <<pc, retries, error, content, documentationSections>>

ReadResource ==
  /\ Idle
  /\ \E uri \in Uris(documentationSections) :
       /\ request' = [kind |-> "readResource", uri |-> uri]
       /\ response' = readResource(documentationSections, uri)
  /\ UNCHANGED <<pc, retries, error, content, documentationSections>>

ListTools ==
  /\ Idle
  /\ request' = [kind |-> "listTools"]
  /\ response' = listTools
  /\ UNCHANGED <<pc, retries, error, content, documentationSections>>

CallTool(queries) ==
  /\ Idle
  /\ \E name \in ToolNames :
       \E arg \in IF name = "search_docs" THEN queries
                                          ELSE {[given |-> FALSE, value |-> <<>>]} :
          /\ request' = [kind |-> "callTool", name |-> name, query |-> arg]
          /\ response' = callTool(documentationSections, name, arg)
  /\ UNCHANGED <<pc, retries, error, content, documentationSections>>

\* the response, or the error, is written to the transport
Respond ==
  /\ pc = "serving" /\ response # NoMessage
  /\ request' = NoMessage
  /\ response' = NoMessage
  /\ UNCHANGED <<pc, retries, error, content, documentationSections>>

Next(bodies, queries) ==
  \/ AttemptAborted
  \/ AttemptHttpError
  \/ AttemptBody(bodies)
  \/ FetchEnds
  \/ Connect
  \/ ListResources
  \/ ReadResource
  \/ ListTools
  \/ CallTool(queries)
  \/ Respond

NextDocs == Next(Docs, Queries \cup ScenarioQueries)
NextSearch == Next(SearchDocs, Queries)

Spec == Init /\ [][NextDocs]_vars
SpecSearch == Init /\ [][NextSearch]_vars

(***************************************************************************)
(* Properties.                                                             *)
(***************************************************************************)
\* fetchDocumentation has ended: main has connected or is about to, or the
\* process has exited
FetchEnded == pc \in {"connecting", "serving", "exited"}

\* every attempt made so far failed and none is left (only the catch block
\* decrements retries)
AllAttemptsFailed == retries = 0

\* C1: fetchDocumentation signals a fatal failure (and the process exits)
\* if and only if all 3 attempts failed; when some attempt succeeded the
\* server goes on to connect.
C1_FatalIffAllAttemptsFail ==
  FetchEnded => ((pc = "exited") <=> AllAttemptsFailed)

\* the trimmed non-blank lines of the fetched body that open a section
SectionHeaderLines(L) ==
  {i \in 1..Len(L) : L[i].isHeader /\ L[i].text # SyntheticHeader}

\* C2: no request is handled before the section list has been populated by a
\* successfully completed fetch: whenever the server is connected, or a
\* request or response exists, fetchDocumentation has returned without error
\* and the list is non-empty and complete (the synthetic section and one
\* section per header line of the fetched body).
C2_ServedOnlyAfterFetch ==
  (pc = "serving" \/ request # NoMessage \/ response # NoMessage) =>
     /\ pc = "serving"
     /\ error = "null"
     /\ Len(documentationSections) >= 1
     /\ documentationSections[1].header = SyntheticHeader
     /\ Len(documentationSections) =
          1 + Cardinality(SectionHeaderLines(lines(content)))

C2_Witness ==
  /\ pc = "serving"
  /\ request.kind = "callTool"
  /\ response.kind = "content"
  /\ Len(documentationSections) >= 2

\* the k-th smallest element of a set H of numbers
Nth(H, k) == CHOOSE i \in H : Cardinality({j \in H : j < i}) = k - 1

\* the texts of the non-header lines among L[a..b]
NonHeaderTexts(L, a, b) ==
  LET part == SelectSeq(SubSeq(L, a, b), LAMBDA l : ~l.isHeader)
  IN  [i \in 1..Len(part) |-> part[i].text]

\* the lines of a section's content that are not header lines
NonHeaderContent(c) == SelectSeq(c, LAMBDA t : ~startsWith(t, HeaderMarker))

\* C3: segmentation outputs the synthetic section followed by one section per
\* header line (other than the synthetic header) in source order, and every
\* non-header line is, trimmed and once, in the content of the section
\* opened by the nearest preceding header line (the synthetic section when
\* none precedes), in source order; a body without header lines yields one
\* section holding every line.
C3_SegmentationOrder ==
  documentationSections # <<>> =>
    LET S == documentationSections
        L == lines(content)
        H == SectionHeaderLines(L)
        First(k) == IF k = 1 THEN 1 ELSE Nth(H, k - 1) + 1
        Last(k) == IF k = Len(S) THEN Len(L) ELSE Nth(H, k) - 1
    IN  /\ Len(L) >= 1
        /\ Len(S) = 1 + Cardinality(H)
        /\ S[1].header = SyntheticHeader
        /\ \A k \in 2..Len(S) : S[k].header = L[Nth(H, k - 1)].text
        /\ \A k \in 1..Len(S) :
             NonHeaderContent(S[k].content) = NonHeaderTexts(L, First(k), Last(k))
        /\ (\A i \in 1..Len(L) : ~L[i].isHeader) =>
             /\ Len(S) = 1
             /\ S[1].content = [i \in 1..Len(L) |-> L[i].text]

\* content lines before the first header line, then two header lines
C3_Witness ==
  /\ Len(documentationSections) = 3
  /\ documentationSections[1].content # <<>>
  /\ documentationSections[2].content = <<>>
  /\ documentationSections[3].header # documentationSections[2].header

ScenarioSections ==
  << [header |-> SyntheticHeader,
      content |-> << <<"H", "e", "l", "l", "o", " ", "w", "o", "r", "l", "d">> >>],
     [header |-> <<"#", " ", "R", "o", "u", "t", "i", "n", "g">>,
      content |-> << <<"U", "s", "e", " ", "a", " ", "r", "o", "u", "t", "e",
                      "r", ".">> >>] >>

\* C4: a header line equal to the synthetic header starts no section and adds
\* nothing to any section's content; scenario 1 segments into the two
\* sections the specification lists.
C4_SyntheticHeaderLineIsNoOp ==
  documentationSections # <<>> =>
    LET S == documentationSections
    IN  /\ \A k \in 2..Len(S) : S[k].header # SyntheticHeader
        /\ \A k \in 1..Len(S) : SyntheticHeader \notin Range(S[k].content)
        /\ content = ScenarioBody =>
             [k \in 1..Len(S) |-> [header |-> S[k].header, content |-> S[k].content]]
               = ScenarioSections

\* C5: the id of the section a header line opens is the header lowercased,
\* every maximal run of characters outside [a-z0-9] replaced by one "-", the
\* leading marker and separator stripped: it begins with neither "#" nor "-"
\* when the header has alphanumeric text, and "# Routing" gets "routing".
C5_SectionIdIsSlug ==
  \A k \in 2..Len(documentationSections) :
    LET header == documentationSections[k].header
        id == documentationSections[k].id
        collapsed == ReplaceNonAlnumRuns(toLowerCase(header))
    IN  /\ id = DropLeading(collapsed, {"#", "-"})
        /\ (\E c \in Range(toLowerCase(header)) : IsAlnum(c)) =>
             (id # <<>> /\ Head(id) \notin {"#", "-"})
        /\ header = <<"#", " ", "R", "o", "u", "t", "i", "n", "g">> =>
             id = <<"r", "o", "u", "t", "i", "n", "g">>

\* a search_docs call has been handled and its answer not yet sent
Searched == request.kind = "callTool" /\ request.name = "search_docs"

\* C6: a search whose query is empty or all white space returns exactly the
\* invalid-query outcome, which is not the no-matches outcome and holds no
\* section text.
C6_BlankQueryIsInvalidQuery ==
  (Searched /\ \A c \in Range(String(request.query)) : c \in WhiteSpace) =>
     /\ response = TextContent(<<InvalidQueryText>>)
     /\ response # TextContent(<<NoMatchesText>>)

C6_Witness ==
  /\ Searched
  /\ String(request.query) = <<" ", "\t">>
  /\ \E s \in 1..Len(documentationSections) :
       Len(documentationSections[s].content) > 0
  /\ response = TextContent(<<InvalidQueryText>>)

\* the header and content texts of the section list
AllTexts(sections) ==
  {sections[s].header : s \in 1..Len(sections)}
    \cup UNION {Range(sections[s].content) : s \in 1..Len(sections)}

\* C7: a search with at least one token, when no content line and no header
\* contains the full query or any of its tokens (case-insensitive substring),
\* returns the no-matches outcome.
C7_NoSubstringNoMatches ==
  LET query == String(request.query)
      tokens == queryWords(query)
  IN  ( /\ Searched
        /\ tokens # <<>>
        /\ \A t \in AllTexts(documentationSections) :
             /\ ~includes(toLowerCase(t), toLowerCase(query))
             /\ \A k \in 1..Len(tokens) :
                  ~includes(toLowerCase(t), toLowerCase(tokens[k])) )
      => response = TextContent(<<NoMatchesText>>)

\* a search answered with a list of result lines
ResultList ==
  /\ Searched
  /\ response.kind = "content"
  /\ response.content # <<InvalidQueryText>>
  /\ response.content # <<NoMatchesText>>

\* the line text of a rendered result "[<header>] <text>" (no header of the
\* model's bodies holds a "]")
TextOf(rendered) ==
  LET close == CHOOSE i \in 1..Len(rendered) :
                 rendered[i] = "]" /\ \A j \in 1..(i - 1) : rendered[j] # "]"
  IN  SubSeq(rendered, close + 2, Len(rendered))

ResultTexts == [p \in 1..Len(response.content) |-> TextOf(response.content[p])]

\* the scored content lines of the answered search, in source order
ScoredLines ==
  allContent(documentationSections, String(request.query),
             queryWords(String(request.query)))

\* the lines of the exact-match pass; the rank of one: the lines of higher
\* score and the earlier lines of equal score come before it
ExactLines(all) == {i \in 1..Len(all) : all[i].exactScore > 0}
ExactRank(all, i) ==
  1 + Cardinality({j \in ExactLines(all) :
                     \/ all[j].exactScore > all[i].exactScore
                     \/ all[j].exactScore = all[i].exactScore /\ j < i})
\* the first line of the exact-match pass, in rank order, with the text of
\* line i
FirstOfText(all, i) ==
  CHOOSE f \in ExactLines(all) :
    /\ all[f].text = all[i].text
    /\ \A j \in ExactLines(all) :
         all[j].text = all[i].text => ExactRank(all, f) <= ExactRank(all, j)
\* the rank of the text of line i among the distinct texts of the exact-match
\* pass: the distinct texts up to the first line that carries it
DistinctRank(all, i) ==
  Cardinality({all[j].text : j \in {j \in ExactLines(all) :
                 ExactRank(all, j) <= ExactRank(all, FirstOfText(all, i))}})
\* the lines that qualify for the exact-match pass and a per-token pass
InBothPasses(all) ==
  {i \in ExactLines(all) :
     \E k \in 1..Len(all[i].wordScores) : all[i].wordScores[k].frequency > 0}

NoTextTwice ==
  \A p, r \in 1..Len(response.content) :
     p # r => ResultTexts[p] # ResultTexts[r]

\* C8, as stated: a line that qualifies for both passes is in the result list
\* once, at its rank in the exact-match pass, when that rank is within the
\* limit; no text is in a result list twice.
C8_AtExactRank ==
  ResultList =>
    LET all == ScoredLines
    IN  /\ NoTextTwice
        /\ \A i \in InBothPasses(all) :
             ExactRank(all, i) <= ResultLimit =>
               /\ ExactRank(all, i) <= Len(response.content)
               /\ ResultTexts[ExactRank(all, i)] = all[i].text

\* C8, amended: the position is the rank of the line's text among the
\* distinct texts of the exact-match pass (a text that repeats counts once,
\* at its first line in rank order), when that rank is within the limit.
C8_AtDistinctRank ==
  ResultList =>
    LET all == ScoredLines
    IN  /\ NoTextTwice
        /\ \A i \in InBothPasses(all) :
             DistinctRank(all, i) <= ResultLimit =>
               /\ DistinctRank(all, i) <= Len(response.content)
               /\ ResultTexts[DistinctRank(all, i)] = all[i].text

\* a line of both passes whose text repeats before it and that the sort has
\* moved in front of an earlier line
C8_Witness ==
  /\ ResultList
  /\ \E i \in InBothPasses(ScoredLines) :
       /\ DistinctRank(ScoredLines, i) < ExactRank(ScoredLines, i)
       /\ DistinctRank(ScoredLines, i) <= ResultLimit
  /\ \E i \in InBothPasses(ScoredLines) : ExactRank(ScoredLines, i) < i

\* C9: the list of result lines of a search has at most 3 entries.
C9_AtMostLimit ==
  (Searched /\ response.kind = "content") => Len(response.content) <= 3

\* more than 3 distinct texts matched and 3 were returned
C9_Witness ==
  /\ ResultList
  /\ Cardinality({ScoredLines[i].text : i \in ExactLines(ScoredLines)}) > 3
  /\ Len(queryWords(String(request.query))) > 1
  /\ Len(response.content) = 3

\* the id a URI names, by its form
IsSectionId(id) == id # <<>> /\ "/" \notin Range(id)
Pieces(uri) == {SubSeq(uri, a, b) : a, b \in 1..Len(uri)}
HeaderUriIds(uri) == {id \in Pieces(uri) : IsSectionId(id) /\ uri = UriPrefix \o id}
ContentUriIds(uri) ==
  {id \in Pieces(uri) : IsSectionId(id) /\ uri = UriPrefix \o id \o ContentSuffix}

\* what the claim says a read of uri answers
ExpectedRead(sections, uri) ==
  LET ids == HeaderUriIds(uri) \cup ContentUriIds(uri)
      id == CHOOSE x \in ids : TRUE
      named == {k \in 1..Len(sections) : sections[k].id = id}
      section == sections[Nth(named, 1)]
  IN  IF ids = {} \/ named = {} THEN Thrown("InvalidRequest")
      ELSE IF ContentUriIds(uri) # {} /\ section.content = <<>>
        THEN Thrown("InternalError")
      ELSE IF ContentUriIds(uri) # {}
        THEN [kind |-> "contents", uri |-> uri,
              text |-> join(section.content, <<"\n">>)]
      ELSE [kind |-> "contents", uri |-> uri, text |-> section.header]

\* C10: a read-resource request leaves the server running and the section
\* list unchanged; a malformed URI or an unknown id fails with an
\* invalid-request error, a /content read of a section without content fails
\* with an error, and any other read returns the header, or the content
\* lines joined by newlines, of the section the id names (the first one in
\* the list with that id).
C10_ReadResourceTotal ==
  [][(response = NoMessage /\ request'.kind = "readResource") =>
       /\ pc' = "serving"
       /\ documentationSections' = documentationSections
       /\ response' = ExpectedRead(documentationSections, request'.uri)]_vars

\* the /content of the first of two consecutive header lines was read
C10_Witness ==
  /\ request.kind = "readResource"
  /\ response = Thrown("InternalError")
  /\ Len(documentationSections) >= 3
  /\ request.uri = UriPrefix \o documentationSections[2].id \o ContentSuffix

\* the score the specification's rule gives a text for a query: the rule is
\* applied to the non-empty tokens of the query, and distinct tokens are
\* counted
RuleScore(t, query, isHeader) ==
  LET tokens == NonEmpty(splitWhiteSpace(query))
      lowerText == toLowerCase(t)
      exact == IF isHeader THEN 10000 ELSE 1000
      matching == {w \in Range(tokens) : includes(lowerText, toLowerCase(w))}
  IN  IF Len(tokens) = 1
        THEN IF includes(lowerText, toLowerCase(query)) THEN exact ELSE 0
      ELSE IF includes(lowerText, toLowerCase(query)) THEN exact
      ELSE IF Cardinality(matching) >= 2
        THEN Cardinality(matching) * (IF isHeader THEN 800 ELSE 400)
      ELSE 0

\* C11: for the query of every search that scores (a query with a token),
\* getRelevanceScore gives every header and every content line the score
\* of the specification's rule, queries with leading or trailing white space
\* and queries that repeat a token included.
C11_ScoreFollowsRule ==
  (Searched /\ queryWords(String(request.query)) # <<>>) =>
    \A k \in 1..Len(documentationSections) :
      LET section == documentationSections[k]
          query == String(request.query)
      IN  /\ getRelevanceScore(section.header, query, TRUE)
               = RuleScore(section.header, query, TRUE)
          /\ \A i \in 1..Len(section.content) :
               getRelevanceScore(section.content[i], query, FALSE)
                 = RuleScore(section.content[i], query, FALSE)

\* C12: the section list is replaced all-or-nothing: a step in which an
\* attempt fails (the catch block runs: error set, a retry used up) leaves the
\* list as it was, and the list changes only in the step of an attempt that
\* succeeds, which leaves the loop with the list built in full from the body
\* it fetched, so no later attempt and no handler sees a partly built list.
C12_AllOrNothing ==
  [][ /\ (retries' < retries) =>
            documentationSections' = documentationSections
      /\ (documentationSections' # documentationSections) =>
            /\ pc = "fetching" /\ pc' = "afterLoop"
            /\ retries' = retries /\ error' = error
            /\ Len(lines(content')) > 0
            /\ documentationSections' = buildSections(lines(content'))
    ]_vars

\* an attempt failed, a later attempt succeeded and replaced the list
C12_Witness ==
  /\ error = "Error" /\ retries < MaxRetries
  /\ documentationSections # <<>>
  /\ documentationSections = buildSections(lines(content))

\* C13: listing and reading agree: while the server serves, every URI the
\* list-resources handler returns is read by the read-resource handler
\* without error, and the read returns the data of the section the URI was
\* listed for: the header for the section's URI, the content lines joined by
\* newlines for its /content URI, sections without content and sections
\* whose headers give the same id included.
C13_ListedUrisReadTheirSection ==
  pc = "serving" =>
    LET sections == documentationSections
        listed == listResources(sections).resources
    IN  \A s \in 1..Len(sections) :
          /\ readResource(sections, listed[2 * s - 1].uri)
               = [kind |-> "contents", uri |-> listed[2 * s - 1].uri,
                  text |-> sections[s].header]
          /\ readResource(sections, listed[2 * s].uri)
               = [kind |-> "contents", uri |-> listed[2 * s].uri,
                  text |-> join(sections[s].content, <<"\n">>)]

====
